---------------------------- MODULE Spec2Model ----------------------------
(***************************************************************************)
(* The VolumeBinding scheduler plugin                                      *)
(* (pkg/scheduler/framework/plugins/volumebinding/volume_binding.go).      *)
(*                                                                         *)
(* The plugin's extension points are modelled as operators that compute,   *)
(* from what the handler reads and from what its collaborator returns, the *)
(* status the handler returns, the collaborator calls it makes and what it *)
(* writes into the per-cycle state.  The actions apply them to the state:  *)
(* the CycleState of each pod's scheduling cycle and the volume binder's   *)
(* pod binding cache, which all cycles share.                              *)
(***************************************************************************)
EXTENDS Integers, Sequences, FiniteSets, TLC

(***************************************************************************)
(* Bounds of the model.                                                    *)
(***************************************************************************)
\* the longest pod.Spec.Volumes list a pod is given
MaxVolumes == 2
\* the longest list of conflict reasons FindPodVolumes returns
MaxReasons == 2

PodNames == {"pod-a", "pod-b"}
NodeNames == {"node-1", "node-2"}
\* nodeInfo.Node() of a NodeInfo that holds no node
NilNode == "<nil node>"
\* a volume source of a pod: a persistent volume claim, or any other source
VolumeSources == {"PersistentVolumeClaim", "EmptyDir"}
\* the error value nil
NoError == "<nil>"
\* the errors a binder call returns
BinderErrors == {"binder error 1", "binder error 2"}
\* the conflict reasons FindPodVolumes reports
ConflictReasons == {"node(s) had volume node affinity conflict",
                    "node(s) didn't find available persistent volumes to bind"}

SeqsUpTo(S, n) == UNION {[1..k -> S] : k \in 0..n}

VolumeLists == SeqsUpTo(VolumeSources, MaxVolumes)
\* the pods Filter is given
Pods == [name : PodNames, volumes : VolumeLists]

\* the pods that scheduling cycles are run for: one with a claim after another
\* volume, one with no claim
CyclePods == {[name |-> "pod-a", volumes |-> <<"EmptyDir", "PersistentVolumeClaim">>],
              [name |-> "pod-b", volumes |-> <<"EmptyDir">>]}

(***************************************************************************)
(* framework.Status and framework.CycleState, as the plugin uses them.     *)
(***************************************************************************)
allBoundStateKey == "volumebinding:all-bound"

\* framework.NewStatus(code, reasons...)
NewStatus(code, reasons) == [code |-> code, reasons |-> reasons]

\* a nil *framework.Status
Success == [code |-> "Success", reasons |-> <<>>]

\* status.AppendReason(reason)
AppendReason(status, reason) ==
    [status EXCEPT !.reasons = Append(@, reason)]

\* allBoundStateData(allBound)
allBoundStateData(allBound) == [type |-> "allBoundStateData", value |-> allBound]

\* the state data another plugin would store
otherStateData == [type |-> "otherStateData", value |-> FALSE]

\* a CycleState that holds nothing under the plugin's key
EmptyCycleState == [k \in {} |-> otherStateData]

\* cs.Write(key, data)
Write(cs, key, data) == [k \in DOMAIN cs \cup {key} |-> IF k = key THEN data ELSE cs[k]]

\* cs.Read(key)
Read(cs, key) ==
    IF key \in DOMAIN cs
    THEN [data |-> cs[key], err |-> NoError]
    ELSE [data |-> otherStateData, err |-> "not found"]

(***************************************************************************)
(* The calls of the scheduling.SchedulerVolumeBinder interface.            *)
(***************************************************************************)
Call(fn, podName, node) == [fn |-> fn, pod |-> podName, node |-> node]

\* the node of a call that takes no node
NoNode == "-"

FindReturns == [reasons : SeqsUpTo(ConflictReasons, MaxReasons),
                err : BinderErrors \cup {NoError}]
AssumeReturns == [allBound : BOOLEAN, err : BinderErrors \cup {NoError}]
BindReturns == BinderErrors \cup {NoError}

\* what FindPodVolumes returns in the scheduling cycles: nothing, reasons, an
\* error, and an error with reasons
CycleFindReturns ==
    {[reasons |-> <<>>, err |-> NoError],
     [reasons |-> <<"node(s) had volume node affinity conflict",
                    "node(s) didn't find available persistent volumes to bind">>,
      err |-> NoError],
     [reasons |-> <<>>, err |-> "binder error 1"],
     [reasons |-> <<"node(s) didn't find available persistent volumes to bind",
                    "node(s) had volume node affinity conflict">>,
      err |-> "binder error 2"]}

(***************************************************************************)
(* The extension points.                                                   *)
(***************************************************************************)
\* podHasPVCs that takes any volume for a claim
podHasPVCs_AnyVolume(pod) == Len(pod.volumes) > 0

podHasPVCs(pod) ==
    \E i \in 1..Len(pod.volumes) : pod.volumes[i] = "PersistentVolumeClaim"

\* the loop of Filter returning from its first iteration
AppendReasons_OnlyFirst(status, reasons, i) ==
    IF i > Len(reasons) THEN status ELSE AppendReason(status, reasons[i])

RECURSIVE AppendReasons(_, _, _)
\* the loop of Filter over the reasons, from the i-th on
AppendReasons(status, reasons, i) ==
    IF i > Len(reasons)
    THEN status
    ELSE AppendReasons(AppendReason(status, reasons[i]), reasons, i + 1)

\* what Filter does with what FindPodVolumes returned
ReportFind(pod, node, findRet) ==
    LET calls == <<Call("FindPodVolumes", pod.name, node)>> IN
    IF findRet.err # NoError
    THEN [status |-> NewStatus("Error", <<findRet.err>>), calls |-> calls]
    ELSE IF Len(findRet.reasons) > 0
    THEN [status |-> AppendReasons(NewStatus("UnschedulableAndUnresolvable", <<>>),
                                   findRet.reasons, 1),
          calls |-> calls]
    ELSE [status |-> Success, calls |-> calls]

\* Filter with the test of the claims before the test of the node
Filter_ClaimsBeforeNode(pod, node, findRet) ==
    IF ~podHasPVCs(pod)
    THEN [status |-> Success, calls |-> <<>>]
    ELSE IF node = NilNode
    THEN [status |-> NewStatus("Error", <<"node not found">>), calls |-> <<>>]
    ELSE ReportFind(pod, node, findRet)

\* Filter without the test of the claims
Filter_FindWithoutClaims(pod, node, findRet) ==
    IF node = NilNode
    THEN [status |-> NewStatus("Error", <<"node not found">>), calls |-> <<>>]
    ELSE ReportFind(pod, node, findRet)

\* Filter with the test of the reasons before the test of the error
Filter_ReasonsBeforeError(pod, node, findRet) ==
    IF node = NilNode
    THEN [status |-> NewStatus("Error", <<"node not found">>), calls |-> <<>>]
    ELSE IF ~podHasPVCs(pod)
    THEN [status |-> Success, calls |-> <<>>]
    ELSE LET calls == <<Call("FindPodVolumes", pod.name, node)>> IN
         IF Len(findRet.reasons) > 0
         THEN [status |-> AppendReasons(NewStatus("UnschedulableAndUnresolvable", <<>>),
                                        findRet.reasons, 1),
               calls |-> calls]
         ELSE IF findRet.err # NoError
         THEN [status |-> NewStatus("Error", <<findRet.err>>), calls |-> calls]
         ELSE [status |-> Success, calls |-> calls]

Filter(pod, node, findRet) ==
    IF node = NilNode
    THEN [status |-> NewStatus("Error", <<"node not found">>), calls |-> <<>>]
    ELSE IF ~podHasPVCs(pod)
    THEN [status |-> Success, calls |-> <<>>]
    ELSE ReportFind(pod, node, findRet)

\* Reserve with the write moved before the error check
Reserve_WriteBeforeErrorCheck(cs, pod, nodeName, assumeRet) ==
    LET calls == <<Call("AssumePodVolumes", pod.name, nodeName)>>
        written == Write(cs, allBoundStateKey, allBoundStateData(assumeRet.allBound))
    IN  IF assumeRet.err # NoError
        THEN [status |-> NewStatus("Error", <<assumeRet.err>>), calls |-> calls,
              cs |-> written]
        ELSE [status |-> Success, calls |-> calls, cs |-> written]

Reserve(cs, pod, nodeName, assumeRet) ==
    LET calls == <<Call("AssumePodVolumes", pod.name, nodeName)>> IN
    IF assumeRet.err # NoError
    THEN [status |-> NewStatus("Error", <<assumeRet.err>>), calls |-> calls, cs |-> cs]
    ELSE [status |-> Success, calls |-> calls,
          cs |-> Write(cs, allBoundStateKey, allBoundStateData(assumeRet.allBound))]

\* what PreBind does once it has decided to bind
BindAndReport(pod, bindErr) ==
    LET calls == <<Call("BindPodVolumes", pod.name, NoNode)>> IN
    IF bindErr # NoError
    THEN [status |-> NewStatus("Error", <<bindErr>>), calls |-> calls]
    ELSE [status |-> Success, calls |-> calls]

\* PreBind without the test of the flag: it binds whatever Reserve stored
PreBind_IgnoresFlag(cs, pod, bindErr) ==
    LET read == Read(cs, allBoundStateKey) IN
    IF read.err # NoError
    THEN [status |-> NewStatus("Error", <<read.err>>), calls |-> <<>>]
    ELSE IF read.data.type # "allBoundStateData"
    THEN [status |-> NewStatus("Error", <<"unable to convert state into allBoundStateData">>),
          calls |-> <<>>]
    ELSE BindAndReport(pod, bindErr)

\* PreBind that logs the error of BindPodVolumes and does not return it
PreBind_DropsBindError(cs, pod, bindErr) ==
    LET read == Read(cs, allBoundStateKey) IN
    IF read.err # NoError
    THEN [status |-> NewStatus("Error", <<read.err>>), calls |-> <<>>]
    ELSE IF read.data.type # "allBoundStateData"
    THEN [status |-> NewStatus("Error", <<"unable to convert state into allBoundStateData">>),
          calls |-> <<>>]
    ELSE IF read.data.value
    THEN [status |-> Success, calls |-> <<>>]
    ELSE [status |-> Success, calls |-> <<Call("BindPodVolumes", pod.name, NoNode)>>]

\* PreBind that takes a flag it cannot read for false, and binds
PreBind_DefaultsFlag(cs, pod, bindErr) ==
    LET read == Read(cs, allBoundStateKey) IN
    IF read.err = NoError /\ read.data.type = "allBoundStateData" /\ read.data.value
    THEN [status |-> Success, calls |-> <<>>]
    ELSE BindAndReport(pod, bindErr)

\* PreBind that asks the binder again before it binds
PreBind_AssumesAgain(cs, pod, bindErr) ==
    LET read == Read(cs, allBoundStateKey) IN
    IF read.err # NoError
    THEN [status |-> NewStatus("Error", <<read.err>>), calls |-> <<>>]
    ELSE IF read.data.type # "allBoundStateData"
    THEN [status |-> NewStatus("Error", <<"unable to convert state into allBoundStateData">>),
          calls |-> <<>>]
    ELSE IF read.data.value
    THEN [status |-> Success, calls |-> <<>>]
    ELSE [status |-> BindAndReport(pod, bindErr).status,
          calls |-> <<Call("AssumePodVolumes", pod.name, NoNode)>>
                    \o BindAndReport(pod, bindErr).calls]

PreBind(cs, pod, bindErr) ==
    LET read == Read(cs, allBoundStateKey) IN
    IF read.err # NoError
    THEN [status |-> NewStatus("Error", <<read.err>>), calls |-> <<>>]
    ELSE IF read.data.type # "allBoundStateData"
    THEN [status |-> NewStatus("Error", <<"unable to convert state into allBoundStateData">>),
          calls |-> <<>>]
    ELSE IF read.data.value
    THEN [status |-> Success, calls |-> <<>>]
    ELSE BindAndReport(pod, bindErr)

\* Unreserve that leaves the pod's bindings in the cache
Unreserve_NoDelete(pod) == [calls |-> <<>>]

Unreserve(pod) == [calls |-> <<Call("DeletePodBindings", pod.name, NoNode)>>]

\* PostBind that leaves the pod's bindings in the cache
PostBind_NoDelete(pod) == [calls |-> <<>>]

PostBind(pod) == [calls |-> <<Call("DeletePodBindings", pod.name, NoNode)>>]

(***************************************************************************)
(* The payloads of the pod informer's delete notification.                 *)
(***************************************************************************)
PodObject(pod) == [type |-> "*v1.Pod", pod |-> pod]
OtherObject == [type |-> "*v1.Node"]
DeletedFinalStateUnknown(obj) == [type |-> "cache.DeletedFinalStateUnknown", Obj |-> obj]

Objects ==
    LET plain == {PodObject(pod) : pod \in CyclePods} \cup {OtherObject}
    IN  plain \cup {DeletedFinalStateUnknown(obj) : obj \in plain}

\* DeleteFunc without the case of cache.DeletedFinalStateUnknown
DeleteFunc_IgnoresTombstone(obj) ==
    IF obj.type = "*v1.Pod"
    THEN [calls |-> <<Call("DeletePodBindings", obj.pod.name, NoNode)>>, errors |-> <<>>]
    ELSE [calls |-> <<>>,
          errors |-> <<[msg |-> "unable to handle object %T", type |-> obj.type]>>]

\* the DeleteFunc that New registers with the pod informer
DeleteFunc(obj) ==
    IF obj.type = "*v1.Pod"
    THEN [calls |-> <<Call("DeletePodBindings", obj.pod.name, NoNode)>>, errors |-> <<>>]
    ELSE IF obj.type = "cache.DeletedFinalStateUnknown"
    THEN IF obj.Obj.type = "*v1.Pod"
         THEN [calls |-> <<Call("DeletePodBindings", obj.Obj.pod.name, NoNode)>>,
               errors |-> <<>>]
         ELSE [calls |-> <<>>,
               errors |-> <<[msg |-> "unable to convert object %T to *v1.Pod",
                             type |-> obj.type]>>]
    ELSE [calls |-> <<>>,
          errors |-> <<[msg |-> "unable to handle object %T", type |-> obj.type]>>]

(***************************************************************************)
(* The volume binder: what its calls do to the pod binding cache, the      *)
(* pods it holds bindings for.                                             *)
(***************************************************************************)
\* FindPodVolumes creates the pod's bindings for the node when it has volumes
\* to bind there (recorded), as the comment in New says of the Filter phase
FindPodVolumes(cache, podName, node, recorded) ==
    IF recorded THEN cache \cup {podName} ELSE cache

\* AssumePodVolumes, when it succeeds, holds the pod's bindings for the node
AssumePodVolumes(cache, podName, node, err) ==
    IF err = NoError THEN cache \cup {podName} ELSE cache

\* BindPodVolumes reads the pod's bindings
BindPodVolumes(cache, podName) == cache

\* a DeletePodBindings that clears nothing
DeletePodBindings_Keeps(cache, podName) == cache

\* DeletePodBindings clears the pod's bindings, whether it has any or not
DeletePodBindings(cache, podName) == cache \ {podName}

\* what the binder chooses or returns during one handler's calls
Oracle(recorded, err) == [recorded |-> recorded, err |-> err]

RECURSIVE ApplyCalls(_, _, _, _)
\* the pod binding cache after the calls of one handler, from the i-th on
ApplyCalls(cache, calls, oracle, i) ==
    IF i > Len(calls)
    THEN cache
    ELSE LET c == calls[i]
             next == CASE c.fn = "FindPodVolumes" ->
                            FindPodVolumes(cache, c.pod, c.node, oracle.recorded)
                       [] c.fn = "AssumePodVolumes" ->
                            AssumePodVolumes(cache, c.pod, c.node, oracle.err)
                       [] c.fn = "BindPodVolumes" ->
                            BindPodVolumes(cache, c.pod)
                       [] c.fn = "DeletePodBindings" ->
                            DeletePodBindings(cache, c.pod)
         IN  ApplyCalls(next, calls, oracle, i + 1)

(***************************************************************************)
(* The plugin's arguments and its construction.  An int64 is its eight     *)
(* bytes in two's complement, the lowest first, and its arithmetic wraps   *)
(* as Go's does.                                                           *)
(***************************************************************************)
Int64Bytes == 8

\* the int64 of a small integer
Int64(n) ==
    LET m == IF n >= 0 THEN n ELSE -n - 1
        byte(i) == IF i <= 4 THEN (m \div 256^(i - 1)) % 256 ELSE 0
    IN  [i \in 1..Int64Bytes |-> IF n >= 0 THEN byte(i) ELSE 255 - byte(i)]

IsNegative(x) == x[Int64Bytes] >= 128
IsZero(x) == \A i \in 1..Int64Bytes : x[i] = 0

RECURSIVE ColumnSum(_, _, _, _)
\* the sum of the products of the bytes of a and b that fall in column k, from
\* the i-th byte of a on
ColumnSum(a, b, k, i) ==
    IF i > k \/ i > Len(a)
    THEN 0
    ELSE (IF k + 1 - i <= Len(b) THEN a[i] * b[k + 1 - i] ELSE 0)
         + ColumnSum(a, b, k, i + 1)

RECURSIVE MulBytes(_, _, _, _, _)
\* the bytes k..n of the product of a and b, given the carry into column k
MulBytes(a, b, k, carry, n) ==
    IF k > n
    THEN <<>>
    ELSE LET s == ColumnSum(a, b, k, 1) + carry
         IN  <<s % 256>> \o MulBytes(a, b, k + 1, s \div 256, n)

\* a * b in int64: the low eight bytes of the product
Mul64(a, b) == MulBytes(a, b, 1, 0, Int64Bytes)

\* time.Second, a time.Duration: an int64 of nanoseconds
Second == Int64(1000000000)

DefaultBindTimeoutSeconds == 600

\* Args with the field set to the value, and with the field left out
ArgsOf(value) == [BindTimeoutSeconds |-> [nil |-> FALSE, value |-> value]]
ArgsOmitted == [BindTimeoutSeconds |-> [nil |-> TRUE]]

validateArgs(args) ==
    IF args.BindTimeoutSeconds.nil
    THEN NoError
    ELSE LET bindTimeoutSeconds == args.BindTimeoutSeconds.value IN
         IF IsNegative(bindTimeoutSeconds) \/ IsZero(bindTimeoutSeconds)
         THEN "invalid BindTimeoutSeconds: %d, must be positive integer"
         ELSE NoError

\* what New is given: arguments that DecodeInto decodes into Args, or not
Decodes(args) == [err |-> NoError, args |-> args]
DecodeFails == [err |-> "decode error"]

NoPlugin == [nil |-> TRUE]

\* New: the plugin, whose binder has the bind timeout, or the error
New(plArgs) ==
    IF plArgs.err # NoError
    THEN [plugin |-> NoPlugin, err |-> plArgs.err]
    ELSE IF validateArgs(plArgs.args) # NoError
    THEN [plugin |-> NoPlugin, err |-> validateArgs(plArgs.args)]
    ELSE LET bindTimeoutSeconds ==
                 IF plArgs.args.BindTimeoutSeconds.nil
                 THEN Int64(DefaultBindTimeoutSeconds)
                 ELSE plArgs.args.BindTimeoutSeconds.value
         IN  [plugin |-> [nil |-> FALSE, bindTimeout |-> Mul64(bindTimeoutSeconds, Second)],
              err |-> NoError]

\* the values of BindTimeoutSeconds that New is tried on: the small ones, and
\* those with one byte that is not zero
MaxSeconds == 20
TimeoutValues ==
    {Int64(n) : n \in -MaxSeconds..MaxSeconds}
    \cup {[i \in 1..Int64Bytes |-> IF i = k THEN b ELSE 0] :
            k \in 1..Int64Bytes, b \in 1..255}
    \* 9223372036 and 9223372037: the nanoseconds of the first are the most
    \* that an int64 holds
    \cup {<<4, 125, 193, 37, 2, 0, 0, 0>>, <<5, 125, 193, 37, 2, 0, 0, 0>>}

PluginArgs ==
    {DecodeFails, Decodes(ArgsOmitted)} \cup {Decodes(ArgsOf(v)) : v \in TimeoutValues}

(***************************************************************************)
(* Package nsenter: EvalSymlinksAtNewRoot.  A path is a string, here the   *)
(* sequence of its characters; the operators of path/filepath and strings *)
(* are those of Go on a system whose separator is "/".                     *)
(***************************************************************************)
IsPathSeparator(c) == c = "/"

\* filepath.IsAbs
IsAbs(path) == Len(path) > 0 /\ path[1] = "/"

\* strings.HasPrefix and strings.TrimPrefix
HasPrefix(s, prefix) ==
    /\ Len(prefix) <= Len(s)
    /\ SubSeq(s, 1, Len(prefix)) = prefix

TrimPrefix(s, prefix) ==
    IF HasPrefix(s, prefix) THEN SubSeq(s, Len(prefix) + 1, Len(s)) ELSE s

RECURSIVE Elements(_, _, _)
\* the elements of the path between its separators, from the i-th character
\* on, cur being the element read so far
Elements(path, i, cur) ==
    LET done == IF cur = <<>> THEN <<>> ELSE <<cur>> IN
    IF i > Len(path)
    THEN done
    ELSE IF IsPathSeparator(path[i])
    THEN done \o Elements(path, i + 1, <<>>)
    ELSE Elements(path, i + 1, Append(cur, path[i]))

DotDot == <<".", ".">>

RECURSIVE CleanElements(_, _, _, _)
\* the elements that filepath.Clean keeps of elems, from the i-th on, out
\* being those kept so far
CleanElements(elems, i, out, rooted) ==
    IF i > Len(elems)
    THEN out
    ELSE LET e == elems[i] IN
         IF e = <<".">>
         THEN CleanElements(elems, i + 1, out, rooted)
         ELSE IF e = DotDot
         THEN IF out # <<>> /\ out[Len(out)] # DotDot
              THEN CleanElements(elems, i + 1, SubSeq(out, 1, Len(out) - 1), rooted)
              ELSE IF rooted
              THEN CleanElements(elems, i + 1, out, rooted)
              ELSE CleanElements(elems, i + 1, Append(out, e), rooted)
         ELSE CleanElements(elems, i + 1, Append(out, e), rooted)

RECURSIVE JoinElements(_, _)
\* the elements from the i-th on, with a separator between two of them
JoinElements(elems, i) ==
    IF i > Len(elems)
    THEN <<>>
    ELSE elems[i] \o (IF i < Len(elems) THEN <<"/">> ELSE <<>>)
         \o JoinElements(elems, i + 1)

\* filepath.Clean
Clean(path) ==
    LET rooted == IsAbs(path)
        Of(kept) == IF rooted THEN <<"/">> \o kept
                    ELSE IF kept = <<>> THEN <<".">>
                    ELSE kept
    IN  Of(JoinElements(CleanElements(Elements(path, 1, <<>>), 1, <<>>, rooted), 1))

\* filepath.Join of two elements
Join(a, b) ==
    IF a = <<>> /\ b = <<>> THEN <<>>
    ELSE Clean(IF a = <<>> THEN b
               ELSE IF b = <<>> THEN a
               ELSE a \o <<"/">> \o b)

\* the index of the last separator of the path, 0 if it has none
LastSeparator(path) ==
    LET at == {i \in 1..Len(path) : IsPathSeparator(path[i])}
    IN  IF at = {} THEN 0 ELSE CHOOSE i \in at : \A j \in at : j <= i

\* filepath.Split
Split(path) ==
    LET At(i) == [dir |-> SubSeq(path, 1, i), file |-> SubSeq(path, i + 1, Len(path))]
    IN  At(LastSeparator(path))

(***************************************************************************)
(* The operating system under os.Lstat and os.Readlink.  A filesystem maps *)
(* the paths of its files, from its own root, to a directory, a regular    *)
(* file, or a symbolic link and its target.  The caller sees it mounted at *)
(* newroot, sees it at its old mount point too or not, and has files of    *)
(* its own.                                                                *)
(***************************************************************************)
Directory == [kind |-> "dir"]
RegularFile == [kind |-> "file"]
Symlink(target) == [kind |-> "link", target |-> target]
NoEntry == [kind |-> "none"]

\* the error value nil, and the errors, of the resolver
NilError == [nil |-> TRUE]
PathError(op, path, err) == [nil |-> FALSE, Op |-> op, Path |-> path, Err |-> err]
TooManyLinks == [nil |-> FALSE, msg |-> "EvalSymlinks: too many links"]

\* what the caller sees: the filesystem at its mount points, and its own files
Namespace(fs, mounts, files) == [fs |-> fs, mounts |-> mounts, files |-> files]

\* the path lies at or under the directory
Under(path, dir) ==
    \/ path = dir
    \/ dir = <<"/">> /\ IsAbs(path)
    \/ HasPrefix(path, dir \o <<"/">>)

\* what the caller finds at a clean absolute path, no link followed
EntryAt(ns, path) ==
    LET over == {m \in ns.mounts : Under(path, m)} IN
    IF over # {}
    THEN LET mount == CHOOSE m \in over : \A o \in over : Len(o) <= Len(m)
             In(inside) == IF inside = <<"/">> THEN Directory
                           ELSE IF inside \in DOMAIN ns.fs THEN ns.fs[inside]
                           ELSE NoEntry
         IN  In(Clean(<<"/">> \o TrimPrefix(path, mount)))
    ELSE IF path \in ns.files THEN RegularFile
    ELSE IF \E p \in ns.mounts \cup ns.files : Under(p, path) THEN Directory
    ELSE NoEntry

\* the links that the system follows in one path before it gives up, ELOOP
MaxSymlinks == 40

RECURSIVE Lookup(_, _, _, _)
\* the system's walk of a path, the last element not followed when it is a
\* link: from the directory cur it resolves the elements of rest, and gives
\* the entry it arrives at, or the error
Lookup(ns, cur, rest, fuel) ==
    IF rest = <<>>
    THEN [errno |-> "", entry |-> EntryAt(ns, cur)]
    ELSE LET e == Head(rest)
             Found(next, entry) ==
                 IF e = <<".">> \/ e = DotDot \/ entry.kind = "dir"
                 THEN [errno |-> "", at |-> next, rest |-> Tail(rest), fuel |-> fuel]
                 ELSE IF entry.kind = "none"
                 THEN [errno |-> "ENOENT"]
                 ELSE IF Tail(rest) = <<>>
                 THEN [errno |-> "", entry |-> entry]
                 ELSE IF entry.kind = "file"
                 THEN [errno |-> "ENOTDIR"]
                 ELSE IF fuel = 0
                 THEN [errno |-> "ELOOP"]
                 ELSE [errno |-> "",
                       at |-> IF IsAbs(entry.target) THEN <<"/">> ELSE cur,
                       rest |-> Elements(entry.target, 1, <<>>) \o Tail(rest),
                       fuel |-> fuel - 1]
             In(next) == Found(next, EntryAt(ns, next))
             Go(found) ==
                 IF found.errno # "" THEN [errno |-> found.errno, entry |-> NoEntry]
                 ELSE IF "entry" \in DOMAIN found THEN found
                 ELSE Lookup(ns, found.at, found.rest, found.fuel)
         IN  Go(In(Clean(cur \o <<"/">> \o e)))

\* os.Lstat of an absolute path
Lstat(ns, name) ==
    LET Of(found) ==
            IF found.errno # ""
            THEN [err |-> PathError("lstat", name, found.errno), fi |-> NoEntry]
            ELSE [err |-> NilError, fi |-> found.entry]
    IN  Of(Lookup(ns, <<"/">>, Elements(name, 1, <<>>), MaxSymlinks))

\* os.Readlink of an absolute path
Readlink(ns, name) ==
    LET Of(found) ==
            IF found.errno # ""
            THEN [err |-> PathError("readlink", name, found.errno), target |-> <<>>]
            ELSE IF found.entry.kind # "link"
            THEN [err |-> PathError("readlink", name, "EINVAL"), target |-> <<>>]
            ELSE [err |-> NilError, target |-> found.entry.target]
    IN  Of(Lookup(ns, <<"/">>, Elements(name, 1, <<>>), MaxSymlinks))

(***************************************************************************)
(* The resolver.  Each function takes the caller's namespace first, and    *)
(* gives linksWalked back with what it returns.                            *)
(***************************************************************************)
isRoot(path) == path = <<"/">>

MaxLinksWalked == 255

walkLink(ns, path, oldroot, newroot, linksWalked) ==
    IF linksWalked > MaxLinksWalked
    THEN [newpath |-> <<>>, islink |-> FALSE, err |-> TooManyLinks,
          linksWalked |-> linksWalked]
    ELSE LET OfLink(link) ==
                 IF ~link.err.nil
                 THEN [newpath |-> <<>>, islink |-> FALSE, err |-> link.err,
                       linksWalked |-> linksWalked]
                 ELSE IF ~IsAbs(link.target)
                 THEN [newpath |-> link.target, islink |-> TRUE, err |-> NilError,
                       linksWalked |-> linksWalked + 1]
                 ELSE IF HasPrefix(link.target, oldroot)
                 THEN [newpath |-> Clean(<<"/">> \o TrimPrefix(link.target, oldroot)),
                       islink |-> TRUE, err |-> NilError,
                       linksWalked |-> linksWalked + 1]
                 ELSE [newpath |-> <<>>, islink |-> FALSE,
                       err |-> PathError("readlink", link.target, "ErrNotExist"),
                       linksWalked |-> linksWalked + 1]
             OfStat(stat) ==
                 IF ~stat.err.nil
                 THEN [newpath |-> <<>>, islink |-> FALSE, err |-> stat.err,
                       linksWalked |-> linksWalked]
                 ELSE IF stat.fi.kind # "link"
                 THEN [newpath |-> path, islink |-> FALSE, err |-> NilError,
                       linksWalked |-> linksWalked]
                 ELSE OfLink(Readlink(ns, Join(newroot, path)))
         IN  OfStat(Lstat(ns, Join(newroot, path)))

\* what walkLinks returns of a walkLink whose path it returns as it is
Returned(w) == [path |-> w.newpath, err |-> w.err, linksWalked |-> w.linksWalked]

RECURSIVE walkLinks(_, _, _, _, _)
walkLinks(ns, path, oldroot, newroot, linksWalked) ==
    LET OfFile(newpath, w) ==
            IF ~w.err.nil
            THEN [path |-> <<>>, err |-> w.err, linksWalked |-> w.linksWalked]
            ELSE IF ~w.islink
            THEN Returned(w)
            ELSE IF IsAbs(w.newpath) \/ IsPathSeparator(w.newpath[1])
            THEN Returned(w)
            ELSE [path |-> Join(newpath, w.newpath), err |-> NilError,
                  linksWalked |-> w.linksWalked]
        OfDir(file, d) ==
            IF ~d.err.nil
            THEN [path |-> <<>>, err |-> d.err, linksWalked |-> d.linksWalked]
            ELSE OfFile(d.path, walkLink(ns, Join(d.path, file), oldroot, newroot,
                                         d.linksWalked))
        Of(dir, file) ==
            IF dir = <<>>
            THEN [walk |-> "link", path |-> file]
            ELSE IF file = <<>>
            THEN IF IsPathSeparator(dir[Len(dir)])
                 THEN IF isRoot(dir)
                      THEN [walk |-> "root", path |-> dir]
                      ELSE [walk |-> "links", path |-> SubSeq(dir, 1, Len(dir) - 1)]
                 ELSE [walk |-> "link", path |-> dir]
            ELSE [walk |-> "both", path |-> dir, file |-> file]
        Walk(case) ==
            IF case.walk = "link"
            THEN Returned(walkLink(ns, case.path, oldroot, newroot, linksWalked))
            ELSE IF case.walk = "root"
            THEN [path |-> case.path, err |-> NilError, linksWalked |-> linksWalked]
            ELSE IF case.walk = "links"
            THEN walkLinks(ns, case.path, oldroot, newroot, linksWalked)
            ELSE OfDir(case.file, walkLinks(ns, case.path, oldroot, newroot, linksWalked))
        At(split) == Walk(Of(split.dir, split.file))
    IN  At(Split(path))

\* the pass of a loop that declares linksWalked inside it: each pass counts
\* its links from none
walkSymlinksPass_CountsPerPass(ns, path, oldroot, newroot, linksWalked) ==
    LET Of(w) ==
            IF ~w.err.nil
            THEN [returned |-> TRUE, path |-> <<>>, err |-> w.err, linksWalked |-> 0]
            ELSE IF w.linksWalked = 0
            THEN [returned |-> TRUE, path |-> Clean(w.path), err |-> NilError,
                  linksWalked |-> 0]
            ELSE [returned |-> FALSE, path |-> w.path, err |-> NilError,
                  linksWalked |-> 0]
    IN  Of(walkLinks(ns, path, oldroot, newroot, 0))

\* one pass of the loop of walkSymlinks: it returns, or goes on with the path
\* and the count of the links walked
walkSymlinksPass(ns, path, oldroot, newroot, linksWalked) ==
    LET w == walkLinks(ns, path, oldroot, newroot, linksWalked) IN
    IF ~w.err.nil
    THEN [returned |-> TRUE, path |-> <<>>, err |-> w.err, linksWalked |-> w.linksWalked]
    ELSE IF w.linksWalked = linksWalked
    THEN [returned |-> TRUE, path |-> Clean(w.path), err |-> NilError,
          linksWalked |-> w.linksWalked]
    ELSE [returned |-> FALSE, path |-> w.path, err |-> NilError,
          linksWalked |-> w.linksWalked]

\* walkSymlinks before its loop: it returns at once for the empty path
walkSymlinks(path, oldroot, newroot) ==
    [returned |-> path = <<>>, path |-> path, err |-> NilError, linksWalked |-> 0,
     oldroot |-> oldroot, newroot |-> newroot]

EvalSymlinksAtNewRoot(path, oldroot, newroot) ==
    walkSymlinks(path, Clean(oldroot), Clean(newroot))

(***************************************************************************)
(* The filesystems, paths and roots that the resolver is tried on: the     *)
(* directory /f and the file /f/b, and the links /l, /m and /f/k, each     *)
(* there or not, with targets inside the old root /r (other links, the     *)
(* directory, the file, nothing), relative ones, and targets outside it.   *)
(***************************************************************************)
Absent == <<>>

TargetsOfL == {Absent} \cup {<<"/", "r", "/", "m">>, <<"m">>, <<"/", "r", "/", "f">>, <<"/", "r", "x", "/", "f">>, <<"/", "e">>}
TargetsOfM == {Absent} \cup {<<"/", "r", "/", "f">>, <<"f">>, <<"/", "r", "/", "x">>, <<"/", "e">>}
TargetsOfK == {Absent} \cup {<<"b">>, <<"/", "r", "/", "f", "/", "b">>, <<".", ".", "/", "m">>, <<"/", "r", "x">>}

\* the file at the path when the target is there, and nothing when not
LinkAt(path, target) ==
    IF target = Absent THEN [p \in {} |-> NoEntry] ELSE path :> Symlink(target)

Filesystem(l, m, k) ==
    (<<"/", "f">> :> Directory) @@ (<<"/", "f", "/", "b">> :> RegularFile)
    @@ LinkAt(<<"/", "l">>, l) @@ LinkAt(<<"/", "m">>, m) @@ LinkAt(<<"/", "f", "/", "k">>, k)

\* the filesystems whose links make a cycle: /l to itself, and /l to /m to /l
CyclicFilesystems ==
    {Filesystem(<<"/", "r", "/", "l">>, Absent, Absent),
     Filesystem(<<"/", "r", "/", "m">>, <<"l">>, Absent)}

\* the characters of the names of the links of a chain
Hex == <<"0", "1", "2", "3", "4", "5", "6", "7", "8", "9", "a", "b", "c", "d", "e", "f">>

\* the path of the i-th link of a chain, the first being the link 0
ChainLink(i) == <<"/", Hex[(i \div Len(Hex)) + 1], Hex[(i % Len(Hex)) + 1]>>

\* the filesystem with a chain of n links, each to the next from the old root,
\* and the last to the target
Chain(n, target) ==
    LET links == {ChainLink(i) : i \in 0..(n - 1)}
        TargetOf(i) == IF i = n - 1 THEN target ELSE <<"/", "r">> \o ChainLink(i + 1)
    IN  Filesystem(Absent, Absent, Absent)
        @@ [p \in links |-> Symlink(TargetOf(CHOOSE i \in 0..(n - 1) : ChainLink(i) = p))]

\* the targets at the end of a chain: the root of the filesystem, its
\* directory, and a file outside it
TargetsOfChain == {<<"/", "r">>, <<"/", "r", "/", "f">>, <<"/", "e">>}

\* the chains with as many links as walkLink lets the resolver walk and no
\* more, and with one link less
ChainFilesystems ==
    {Chain(n, target) : n \in {MaxLinksWalked, MaxLinksWalked + 1},
                        target \in TargetsOfChain}

Filesystems ==
    {Filesystem(l, m, k) : l \in TargetsOfL, m \in TargetsOfM, k \in TargetsOfK}
    \cup CyclicFilesystems
    \cup ChainFilesystems

InputPaths == {<<"/", "l">>, <<"/", "l", "/", "b">>, <<"/", "l", "/", "k">>, <<"/", "m", "/", "b">>, <<"/", "f", "/", "k">>, <<"/", "f", "/", ".", ".", "/", "m">>, <<"/", "f", "/", "b">>, <<>>, <<"f", "/", "k">>, <<"/", "f", "/", "k", "/">>, ChainLink(0)}

OldRoots == {<<"/", "r">>, <<"/", "r", "/">>}
NewRoots == {<<"/", "n">>}

\* the files of the caller's own
CallerFiles == {<<"/", "e">>}

\* what the caller sees when the filesystem is still at its old root, and not
CallerNamespace(fs, oldroot, newroot, atOldRoot) ==
    Namespace(fs, {Clean(newroot)} \cup (IF atOldRoot THEN {Clean(oldroot)} ELSE {}),
              CallerFiles)

(***************************************************************************)
(* The state.                                                              *)
(***************************************************************************)
VARIABLES
    cycleState,       \* the CycleState of each pod's scheduling cycle
    podBindingCache,  \* the pods the binder holds bindings for
    assumed,          \* what AssumePodVolumes reported to the Reserve that succeeded
                      \* in each pod's cycle: "allBound" or "notAllBound"; when none
                      \* did, "earlier" if one succeeded in an earlier cycle of the
                      \* pod and "none" otherwise
    inBind,           \* the pods whose PreBind waits in BindPodVolumes
    last              \* the handler that returned last: its arguments, the calls
                      \* it made, what they returned and what it returned

vars == <<cycleState, podBindingCache, assumed, inBind, last>>

Blocked == {pod.name : pod \in inBind}

CycleStates == {EmptyCycleState, Write(EmptyCycleState, allBoundStateKey, otherStateData)}

Init ==
    /\ cycleState \in [PodNames -> CycleStates]
    /\ podBindingCache = {}
    /\ assumed = [p \in PodNames |-> "none"]
    /\ inBind = {}
    /\ last = [op |-> "none"]

\* the framework starts a scheduling cycle for the pod with a new CycleState,
\* in which other plugins may have stored their data
NewCycle(p) ==
    /\ p \notin Blocked
    /\ \E cs \in CycleStates : cycleState' = [cycleState EXCEPT ![p] = cs]
    /\ assumed' = [assumed EXCEPT ![p] = IF @ = "none" THEN "none" ELSE "earlier"]
    /\ UNCHANGED <<podBindingCache, inBind, last>>

\* what FindPodVolumes may return and do when the handler calls it
FindOutcomes(calls, findReturns) ==
    IF calls = <<>>
    THEN {[ret |-> [reasons |-> <<>>, err |-> NoError], recorded |-> FALSE]}
    ELSE [ret : findReturns, recorded : BOOLEAN]

\* Filter is called, FindPodVolumes returning one of findReturns if called
RunFilter(pod, node, findReturns) ==
    /\ pod.name \notin Blocked
    /\ \E o \in FindOutcomes(Filter(pod, node, [reasons |-> <<>>, err |-> NoError]).calls,
                             findReturns) :
         LET r == Filter(pod, node, o.ret) IN
         /\ podBindingCache' = ApplyCalls(podBindingCache, r.calls,
                                          Oracle(o.recorded, o.ret.err), 1)
         /\ last' = [op |-> "Filter", pod |-> pod, node |-> node,
                     status |-> r.status, calls |-> r.calls,
                     rets |-> IF r.calls = <<>> THEN <<>> ELSE <<o.ret>>]
    /\ UNCHANGED <<cycleState, assumed, inBind>>

\* Reserve when the flag is kept in one place for all the cycles, and not in
\* the CycleState of the pod's own cycle
RunReserve_SharedFlag(pod, nodeName) ==
    /\ pod.name \notin Blocked
    /\ \E assumeRet \in AssumeReturns :
         LET r == Reserve(cycleState[pod.name], pod, nodeName, assumeRet) IN
         /\ cycleState' = [q \in PodNames |->
                             IF assumeRet.err # NoError THEN cycleState[q] ELSE r.cs]
         /\ podBindingCache' = ApplyCalls(podBindingCache, r.calls,
                                          Oracle(FALSE, assumeRet.err), 1)
         /\ assumed' = [assumed EXCEPT ![pod.name] =
                          IF assumeRet.err # NoError THEN @
                          ELSE IF assumeRet.allBound THEN "allBound"
                          ELSE "notAllBound"]
         /\ last' = [op |-> "Reserve", pod |-> pod, node |-> nodeName,
                     status |-> r.status, calls |-> r.calls,
                     rets |-> IF r.calls = <<>> THEN <<>> ELSE <<assumeRet>>]
    /\ UNCHANGED inBind

RunReserve(pod, nodeName) ==
    /\ pod.name \notin Blocked
    /\ \E assumeRet \in AssumeReturns :
         LET r == Reserve(cycleState[pod.name], pod, nodeName, assumeRet) IN
         /\ cycleState' = [cycleState EXCEPT ![pod.name] = r.cs]
         /\ podBindingCache' = ApplyCalls(podBindingCache, r.calls,
                                          Oracle(FALSE, assumeRet.err), 1)
         /\ assumed' = [assumed EXCEPT ![pod.name] =
                          IF assumeRet.err # NoError THEN @
                          ELSE IF assumeRet.allBound THEN "allBound"
                          ELSE "notAllBound"]
         /\ last' = [op |-> "Reserve", pod |-> pod, node |-> nodeName,
                     status |-> r.status, calls |-> r.calls,
                     rets |-> IF r.calls = <<>> THEN <<>> ELSE <<assumeRet>>]
    /\ UNCHANGED inBind

\* PreBind is called: it returns at once, or calls BindPodVolumes and waits
CallPreBind(pod) ==
    /\ pod.name \notin Blocked
    /\ LET r == PreBind(cycleState[pod.name], pod, NoError) IN
       IF r.calls = <<>>
       THEN /\ last' = [op |-> "PreBind", pod |-> pod, node |-> NoNode,
                        status |-> r.status, calls |-> r.calls, rets |-> <<>>]
            /\ UNCHANGED inBind
       ELSE /\ inBind' = inBind \cup {pod}
            /\ UNCHANGED last
    /\ UNCHANGED <<cycleState, podBindingCache, assumed>>

\* BindPodVolumes returns, and PreBind with it
ReturnPreBind(pod) ==
    /\ pod \in inBind
    /\ \E bindErr \in BindReturns :
         LET r == PreBind(cycleState[pod.name], pod, bindErr) IN
         /\ podBindingCache' = ApplyCalls(podBindingCache, r.calls,
                                          Oracle(FALSE, bindErr), 1)
         /\ last' = [op |-> "PreBind", pod |-> pod, node |-> NoNode,
                     status |-> r.status, calls |-> r.calls, rets |-> <<bindErr>>]
    /\ inBind' = inBind \ {pod}
    /\ UNCHANGED <<cycleState, assumed>>

RunUnreserve(pod) ==
    /\ pod.name \notin Blocked
    /\ LET r == Unreserve(pod) IN
       /\ podBindingCache' = ApplyCalls(podBindingCache, r.calls, Oracle(FALSE, NoError), 1)
       /\ last' = [op |-> "Unreserve", pod |-> pod, calls |-> r.calls]
    /\ UNCHANGED <<cycleState, assumed, inBind>>

RunPostBind(pod) ==
    /\ pod.name \notin Blocked
    /\ LET r == PostBind(pod) IN
       /\ podBindingCache' = ApplyCalls(podBindingCache, r.calls, Oracle(FALSE, NoError), 1)
       /\ last' = [op |-> "PostBind", pod |-> pod, calls |-> r.calls]
    /\ UNCHANGED <<cycleState, assumed, inBind>>

\* a DeleteFunc that waits until the PreBind of its pod has returned
RunDeleteFunc_WaitsForBind(obj) ==
    /\ obj.type = "*v1.Pod" => obj.pod \notin inBind
    /\ LET r == DeleteFunc(obj) IN
       /\ podBindingCache' = ApplyCalls(podBindingCache, r.calls, Oracle(FALSE, NoError), 1)
       /\ last' = [op |-> "DeleteFunc", obj |-> obj, calls |-> r.calls,
                   errors |-> r.errors]
    /\ UNCHANGED <<cycleState, assumed, inBind>>

\* the pod informer delivers a delete notification
RunDeleteFunc(obj) ==
    /\ LET r == DeleteFunc(obj) IN
       /\ podBindingCache' = ApplyCalls(podBindingCache, r.calls, Oracle(FALSE, NoError), 1)
       /\ last' = [op |-> "DeleteFunc", obj |-> obj, calls |-> r.calls,
                   errors |-> r.errors]
    /\ UNCHANGED <<cycleState, assumed, inBind>>

Next ==
    \/ \E p \in PodNames : NewCycle(p)
    \/ \E pod \in CyclePods, node \in NodeNames \cup {NilNode} :
         RunFilter(pod, node, CycleFindReturns)
    \/ \E pod \in CyclePods, nodeName \in NodeNames : RunReserve(pod, nodeName)
    \/ \E pod \in CyclePods : CallPreBind(pod)
    \/ \E pod \in CyclePods : ReturnPreBind(pod)
    \/ \E pod \in CyclePods : RunUnreserve(pod)
    \/ \E pod \in CyclePods : RunPostBind(pod)
    \/ \E obj \in Objects : RunDeleteFunc(obj)

\* the scheduling cycles of the pods, the binder and the pod informer
Spec == Init /\ [][Next]_vars

FilterNext ==
    /\ last.op = "none"
    /\ \E pod \in Pods, node \in NodeNames \cup {NilNode} :
         RunFilter(pod, node, FindReturns)

\* one call of Filter, on every pod, node and answer of FindPodVolumes
FilterSpec == Init /\ [][FilterNext]_vars

\* New is called
RunNew(plArgs) ==
    /\ LET r == New(plArgs) IN
       last' = [op |-> "New", plArgs |-> plArgs, plugin |-> r.plugin, err |-> r.err]
    /\ UNCHANGED <<cycleState, podBindingCache, assumed, inBind>>

NewNext ==
    /\ last.op = "none"
    /\ \E plArgs \in PluginArgs : RunNew(plArgs)

\* one call of New, on each of the arguments
NewSpec == Init /\ [][NewNext]_vars

\* EvalSymlinksAtNewRoot is called, and comes to the loop of walkSymlinks
CallEval(fs, path, oldroot, newroot, atOldRoot) ==
    /\ last.op = "none"
    /\ LET r == EvalSymlinksAtNewRoot(path, oldroot, newroot) IN
       last' = [op |-> "EvalSymlinksAtNewRoot", fs |-> fs, input |-> path,
                atOldRoot |-> atOldRoot, oldroot |-> r.oldroot, newroot |-> r.newroot,
                returned |-> r.returned, path |-> r.path, err |-> r.err,
                linksWalked |-> r.linksWalked]
    /\ UNCHANGED <<cycleState, podBindingCache, assumed, inBind>>

\* one pass of the loop of walkSymlinks
WalkPass ==
    /\ last.op = "EvalSymlinksAtNewRoot"
    /\ ~last.returned
    /\ LET r == walkSymlinksPass(
                    CallerNamespace(last.fs, last.oldroot, last.newroot, last.atOldRoot),
                    last.path, last.oldroot, last.newroot, last.linksWalked)
       IN  last' = [last EXCEPT !.returned = r.returned, !.path = r.path,
                                !.err = r.err, !.linksWalked = r.linksWalked]
    /\ UNCHANGED <<cycleState, podBindingCache, assumed, inBind>>

EvalInit ==
    /\ Init
    /\ cycleState = [p \in PodNames |-> EmptyCycleState]

EvalNext ==
    \/ \E fs \in Filesystems, path \in InputPaths, oldroot \in OldRoots,
          newroot \in NewRoots, atOldRoot \in BOOLEAN :
         CallEval(fs, path, oldroot, newroot, atOldRoot)
    \/ WalkPass

\* the calls of EvalSymlinksAtNewRoot, on each filesystem, path and roots
EvalSpec == EvalInit /\ [][EvalNext]_vars

(***************************************************************************)
(* The properties.                                                         *)
(***************************************************************************)
\* the call of BindPodVolumes for the pod
BindCall(pod) == [fn |-> "BindPodVolumes", pod |-> pod.name, node |-> NoNode]

\* the data stored under the plugin's key is the plugin's flag with this value
HoldsFlag(cs, value) ==
    /\ allBoundStateKey \in DOMAIN cs
    /\ cs[allBoundStateKey] = [type |-> "allBoundStateData", value |-> value]

\* C1: when Reserve has succeeded in the pod's cycle and AssumePodVolumes
\* reported that all volumes are bound, a call of PreBind for the pod returns
\* success at once: it does not call BindPodVolumes (it does not wait in it, and
\* the calls it reports are none), and the binder's cache stays as it is.
C1_PreBindAllBoundIsNoOp ==
    [][\A pod \in CyclePods :
         (assumed[pod.name] = "allBound" /\ CallPreBind(pod))
         => /\ last'.op = "PreBind"
            /\ last'.pod = pod
            /\ last'.calls = <<>>
            /\ last'.status = [code |-> "Success", reasons |-> <<>>]
            /\ inBind' = inBind
            /\ podBindingCache' = podBindingCache]_vars

\* C1 happens: PreBind has returned success without a call in a cycle whose
\* Reserve was told that all volumes are bound
C1_Witness ==
    /\ last.op = "PreBind"
    /\ assumed[last.pod.name] = "allBound"
    /\ last.calls = <<>>
    /\ last.status.code = "Success"

\* C2: when Reserve has succeeded in the pod's cycle and AssumePodVolumes
\* reported that not all volumes are bound, a call of PreBind calls
\* BindPodVolumes and waits for it; when that call returns, PreBind returns
\* having made that one call and no other: success if it returned no error, and
\* an Error status whose message is the error's if it returned one.
C2_PreBindBindsOnce ==
    [][\A pod \in CyclePods :
         /\ (assumed[pod.name] = "notAllBound" /\ CallPreBind(pod))
            => /\ inBind' = inBind \cup {pod}
               /\ last' = last
         /\ (assumed[pod.name] = "notAllBound" /\ ReturnPreBind(pod))
            => /\ last'.op = "PreBind"
               /\ last'.pod = pod
               /\ last'.calls = <<BindCall(pod)>>
               /\ Len(last'.rets) = 1
               /\ last'.rets[1] = NoError
                  => last'.status = [code |-> "Success", reasons |-> <<>>]
               /\ last'.rets[1] # NoError
                  => last'.status = [code |-> "Error", reasons |-> <<last'.rets[1]>>]
               /\ inBind' = inBind \ {pod}]_vars

\* C2 happens: PreBind has returned the error of its one call of BindPodVolumes
C2_Witness ==
    /\ last.op = "PreBind"
    /\ assumed[last.pod.name] = "notAllBound"
    /\ last.calls = <<BindCall(last.pod)>>
    /\ last.rets[1] \in BinderErrors
    /\ last.status = [code |-> "Error", reasons |-> <<last.rets[1]>>]

\* C3: Reserve calls AssumePodVolumes once, for its pod and node.  If the call
\* returns an error, Reserve returns an Error status and the CycleState of every
\* pod stays as it is.  If not, Reserve returns success and the CycleState of
\* its pod holds, under the plugin's key, the flag with the value the call
\* returned, the others staying as they are.  As long as the cycle lasts the
\* CycleState keeps the flag of the Reserve that succeeded, so that it is what
\* PreBind reads.
C3_ReserveRecordsAssume ==
    /\ [][\A pod \in CyclePods, nodeName \in NodeNames :
            RunReserve(pod, nodeName)
            => /\ last'.op = "Reserve"
               /\ last'.calls = <<[fn |-> "AssumePodVolumes", pod |-> pod.name,
                                   node |-> nodeName]>>
               /\ Len(last'.rets) = 1
               /\ last'.rets[1].err # NoError
                  => /\ last'.status.code = "Error"
                     /\ cycleState' = cycleState
               /\ last'.rets[1].err = NoError
                  => /\ last'.status = [code |-> "Success", reasons |-> <<>>]
                     /\ HoldsFlag(cycleState'[pod.name], last'.rets[1].allBound)
                     /\ DOMAIN cycleState'[pod.name] = {allBoundStateKey}
                     /\ \A q \in PodNames \ {pod.name} :
                          cycleState'[q] = cycleState[q]]_vars
    /\ [](\A p \in PodNames :
            /\ assumed[p] = "allBound" => HoldsFlag(cycleState[p], TRUE)
            /\ assumed[p] = "notAllBound" => HoldsFlag(cycleState[p], FALSE))

\* C3 happens: Reserve has succeeded and stored the flag false that
\* AssumePodVolumes returned
C3_Witness ==
    /\ last.op = "Reserve"
    /\ last.status.code = "Success"
    /\ last.rets[1].allBound = FALSE
    /\ HoldsFlag(cycleState[last.pod.name], FALSE)

\* C4: when the CycleState of the pod holds nothing under the plugin's key, or
\* holds data that is not the plugin's flag, a call of PreBind returns an Error
\* status at once: it does not call BindPodVolumes, and the binder's cache stays
\* as it is.
C4_PreBindRejectsUnreadableFlag ==
    [][\A pod \in CyclePods :
         (/\ \/ allBoundStateKey \notin DOMAIN cycleState[pod.name]
             \/ cycleState[pod.name][allBoundStateKey].type # "allBoundStateData"
          /\ CallPreBind(pod))
         => /\ last'.op = "PreBind"
            /\ last'.pod = pod
            /\ last'.calls = <<>>
            /\ last'.status.code = "Error"
            /\ inBind' = inBind
            /\ podBindingCache' = podBindingCache]_vars

\* C4 happens: PreBind has returned an error over the data of another plugin
C4_Witness ==
    /\ last.op = "PreBind"
    /\ allBoundStateKey \in DOMAIN cycleState[last.pod.name]
    /\ cycleState[last.pod.name][allBoundStateKey].type = "otherStateData"
    /\ last.calls = <<>>
    /\ last.status.code = "Error"
\* the volumes hold a persistent volume claim
HasClaim(volumes) ==
    \E i \in DOMAIN volumes : volumes[i] = "PersistentVolumeClaim"

\* the call of FindPodVolumes for the pod and the node
FindCall(pod, node) == [fn |-> "FindPodVolumes", pod |-> pod.name, node |-> node]

\* C5: for a pod with a persistent volume claim and a node that is not nil,
\* Filter calls FindPodVolumes for them; when the call returns no error and
\* some reasons, Filter returns an UnschedulableAndUnresolvable status whose
\* reasons are the returned ones, each as returned and in their order; when it
\* returns no error and no reason, Filter returns success.
C5_FilterReportsReasons ==
    (last.op = "Filter" /\ last.node \in NodeNames /\ HasClaim(last.pod.volumes))
    => /\ last.calls = <<FindCall(last.pod, last.node)>>
       /\ Len(last.rets) = 1
       /\ (last.rets[1].err = NoError /\ last.rets[1].reasons # <<>>)
          => last.status = [code |-> "UnschedulableAndUnresolvable",
                            reasons |-> last.rets[1].reasons]
       /\ (last.rets[1].err = NoError /\ last.rets[1].reasons = <<>>)
          => last.status = [code |-> "Success", reasons |-> <<>>]

\* C5 happens: Filter has returned two different reasons of FindPodVolumes for
\* a pod whose claim is its second volume
C5_Witness ==
    /\ last.op = "Filter"
    /\ last.pod.volumes = <<"EmptyDir", "PersistentVolumeClaim">>
    /\ last.status.code = "UnschedulableAndUnresolvable"
    /\ Len(last.status.reasons) = 2
    /\ last.status.reasons[1] # last.status.reasons[2]
    /\ last.status.reasons = last.rets[1].reasons

\* C6: for a pod with no persistent volume claim and a node that is not nil,
\* Filter returns success and calls nothing of the binder, whose cache stays
\* empty.
C6_FilterSkipsPodsWithoutClaims ==
    (last.op = "Filter" /\ last.node \in NodeNames /\ ~HasClaim(last.pod.volumes))
    => /\ last.status = [code |-> "Success", reasons |-> <<>>]
       /\ last.calls = <<>>
       /\ podBindingCache = {}

\* C6 happens: Filter has returned success for a pod with volumes, none a claim
C6_Witness ==
    /\ last.op = "Filter"
    /\ last.node \in NodeNames
    /\ last.pod.volumes = <<"EmptyDir", "EmptyDir">>
    /\ last.calls = <<>>
    /\ last.status.code = "Success"

\* C7: for a nil node Filter returns an Error status, whether the pod has
\* claims or not, and calls nothing of the binder, whose cache stays empty.
C7_FilterRejectsNilNode ==
    (last.op = "Filter" /\ last.node = NilNode)
    => /\ last.status.code = "Error"
       /\ last.calls = <<>>
       /\ podBindingCache = {}

\* C7 happens: Filter has returned an error for a nil node and a pod with no claim
C7_Witness ==
    /\ last.op = "Filter"
    /\ last.node = NilNode
    /\ ~HasClaim(last.pod.volumes)
    /\ last.status.code = "Error"

\* a step is a call of Filter
FilterStep ==
    \E pod \in CyclePods, node \in NodeNames \cup {NilNode} :
      RunFilter(pod, node, CycleFindReturns)

\* a step is a call of Reserve
ReserveStep == \E pod \in CyclePods, nodeName \in NodeNames : RunReserve(pod, nodeName)

\* C8 as stated: a call of Filter leaves the CycleStates and the binder's cache
\* as they are, and only a call of Reserve adds bindings to the cache.
C8_FilterIsPure ==
    [][/\ FilterStep => UNCHANGED <<cycleState, podBindingCache>>
       /\ ~(podBindingCache' \subseteq podBindingCache) => ReserveStep]_vars

\* C8 amended: a call of Filter leaves the CycleStates as they are and removes
\* no bindings from the binder's cache; for a nil node or a pod with no claim it
\* leaves the cache as it is, and otherwise its call of FindPodVolumes may add
\* the bindings of its own pod and no other.  Only a call of Filter or of
\* Reserve adds bindings to the cache.
C8_FilterKeepsCycleState ==
    [][/\ \A pod \in CyclePods, node \in NodeNames \cup {NilNode} :
            RunFilter(pod, node, CycleFindReturns)
            => /\ UNCHANGED <<cycleState, assumed, inBind>>
               /\ podBindingCache \subseteq podBindingCache'
               /\ podBindingCache' \subseteq podBindingCache \cup {pod.name}
               /\ (node = NilNode \/ ~HasClaim(pod.volumes))
                  => podBindingCache' = podBindingCache
       /\ ~(podBindingCache' \subseteq podBindingCache)
          => (FilterStep \/ ReserveStep)]_vars

\* C8 happens: Filter has called FindPodVolumes for a pod that no Reserve ever
\* succeeded for, and the cache holds the pod's bindings
C8_Witness ==
    /\ last.op = "Filter"
    /\ last.calls = <<FindCall(last.pod, last.node)>>
    /\ assumed[last.pod.name] = "none"
    /\ last.pod.name \in podBindingCache

\* the error among what a call of the binder returned to the handler
ReturnedError(op, ret) == IF op = "PreBind" THEN ret ELSE ret.err

\* the binder's operation that the handler calls
CalledBy(op) ==
    CASE op = "Filter" -> "FindPodVolumes"
      [] op = "Reserve" -> "AssumePodVolumes"
      [] op = "PreBind" -> "BindPodVolumes"

\* C9: Filter, Reserve and PreBind each make at most one call of the binder,
\* of FindPodVolumes, AssumePodVolumes and BindPodVolumes; when that call has
\* returned an error, together with reasons or not, the handler has returned an
\* Error status whose one message is the error's.
C9_BinderErrorsSurface ==
    last.op \in {"Filter", "Reserve", "PreBind"}
    => /\ Len(last.calls) <= 1
       /\ Len(last.rets) = Len(last.calls)
       /\ Len(last.calls) = 1
          => /\ last.calls[1].fn = CalledBy(last.op)
             /\ last.calls[1].pod = last.pod.name
             /\ ReturnedError(last.op, last.rets[1]) # NoError
                => last.status = [code |-> "Error",
                                  reasons |-> <<ReturnedError(last.op, last.rets[1])>>]

\* C9 happens: Filter has returned the error of a FindPodVolumes that returned
\* reasons too
C9_Witness ==
    /\ last.op = "Filter"
    /\ Len(last.rets) = 1
    /\ last.rets[1].err \in BinderErrors
    /\ Len(last.rets[1].reasons) = 2
    /\ last.status = [code |-> "Error", reasons |-> <<last.rets[1].err>>]

\* C10 as stated: for a pod that no Reserve has succeeded for, in this cycle or
\* an earlier one, Unreserve and PostBind return and leave the CycleStates and
\* the binder's cache as they are.
C10_CleanupWithoutReserveIsNoOp ==
    [][\A pod \in CyclePods :
         (assumed[pod.name] = "none" /\ (RunUnreserve(pod) \/ RunPostBind(pod)))
         => /\ last'.op \in {"Unreserve", "PostBind"}
            /\ UNCHANGED <<cycleState, podBindingCache>>]_vars

\* C10 amended: for a pod that no Reserve has succeeded for, Unreserve and
\* PostBind return (they have no status to return) having made the one call of
\* DeletePodBindings for the pod; they leave the CycleStates and the bindings of
\* the other pods as they are, and the cache holds no bindings of the pod
\* afterwards: nothing changes when it held none, and the bindings that a
\* FindPodVolumes of Filter has put there are deleted.
C10_CleanupWithoutReserveIsSafe ==
    [][\A pod \in CyclePods :
         (assumed[pod.name] = "none" /\ (RunUnreserve(pod) \/ RunPostBind(pod)))
         => /\ last'.op \in {"Unreserve", "PostBind"}
            /\ last'.pod = pod
            /\ last'.calls = <<[fn |-> "DeletePodBindings", pod |-> pod.name,
                                node |-> NoNode]>>
            /\ UNCHANGED <<cycleState, assumed, inBind>>
            /\ podBindingCache' = podBindingCache \ {pod.name}
            /\ pod.name \notin podBindingCache
               => podBindingCache' = podBindingCache]_vars

\* C10 happens: Unreserve has called DeletePodBindings for a pod that no
\* Reserve has succeeded for and that has no bindings
C10_Witness ==
    /\ last.op = "Unreserve"
    /\ assumed[last.pod.name] = "none"
    /\ last.pod.name \notin podBindingCache
    /\ last.calls # <<>>

\* a step is a cleanup for the pod: Unreserve, PostBind, or the DeleteFunc of
\* the pod informer on the pod or on the pod in a DeletedFinalStateUnknown
CleanupOf(pod) ==
    \/ RunUnreserve(pod)
    \/ RunPostBind(pod)
    \/ RunDeleteFunc(PodObject(pod))
    \/ RunDeleteFunc(DeletedFinalStateUnknown(PodObject(pod)))

\* C11: after Unreserve, PostBind or the DeleteFunc has run for a pod, the
\* binder's cache holds no bindings of the pod, and the bindings of the other
\* pods and the CycleStates are as before; run for a pod that has no bindings
\* (as after an earlier cleanup), each of them leaves the cache and the
\* CycleStates as they are.  Deleting a pod's bindings twice gives the cache
\* that deleting them once gives.
C11_CleanupIsIdempotent ==
    /\ [][\A pod \in CyclePods :
            CleanupOf(pod)
            => /\ pod.name \notin podBindingCache'
               /\ \A q \in PodNames \ {pod.name} :
                    q \in podBindingCache' <=> q \in podBindingCache
               /\ UNCHANGED <<cycleState, assumed, inBind>>
               /\ pod.name \notin podBindingCache
                  => podBindingCache' = podBindingCache]_vars
    /\ [](\A p \in PodNames :
            DeletePodBindings(DeletePodBindings(podBindingCache, p), p)
            = DeletePodBindings(podBindingCache, p))

\* C11 happens: PostBind has run for a pod whose Reserve succeeded in this
\* cycle, and the cache holds no bindings of the pod
C11_Witness ==
    /\ last.op = "PostBind"
    /\ assumed[last.pod.name] \in {"allBound", "notAllBound"}
    /\ last.calls = <<[fn |-> "DeletePodBindings", pod |-> last.pod.name,
                       node |-> NoNode]>>
    /\ last.pod.name \notin podBindingCache

\* the payload is a pod, or a DeletedFinalStateUnknown that holds a pod
ResolvesToPod(obj) ==
    \/ obj.type = "*v1.Pod"
    \/ obj.type = "cache.DeletedFinalStateUnknown" /\ obj.Obj.type = "*v1.Pod"

\* the pod that such a payload resolves to
ResolvedPod(obj) == IF obj.type = "*v1.Pod" THEN obj.pod ELSE obj.Obj.pod

\* C12: called with a pod, or with a DeletedFinalStateUnknown that holds a pod,
\* the DeleteFunc makes exactly one call, DeletePodBindings for that pod, and
\* reports no error.  Called with a DeletedFinalStateUnknown that holds
\* something else, or with any other object, it makes no call, reports one
\* error that names the type of the object, and leaves the CycleStates, the
\* binder's cache and the waiting PreBinds as they are.
C12_DeleteFuncResolvesPayload ==
    [][\A obj \in Objects :
         RunDeleteFunc(obj)
         => /\ last'.op = "DeleteFunc"
            /\ last'.obj = obj
            /\ ResolvesToPod(obj)
               => /\ last'.calls = <<[fn |-> "DeletePodBindings",
                                      pod |-> ResolvedPod(obj).name, node |-> NoNode]>>
                  /\ last'.errors = <<>>
                  /\ podBindingCache' = podBindingCache \ {ResolvedPod(obj).name}
            /\ ~ResolvesToPod(obj)
               => /\ last'.calls = <<>>
                  /\ Len(last'.errors) = 1
                  /\ last'.errors[1].type = obj.type
                  /\ UNCHANGED <<cycleState, podBindingCache, assumed, inBind>>]_vars

\* C12 happens: the DeleteFunc has reported a DeletedFinalStateUnknown that
\* holds no pod, and called nothing, while the cache held bindings
C12_Witness ==
    /\ last.op = "DeleteFunc"
    /\ last.obj.type = "cache.DeletedFinalStateUnknown"
    /\ last.obj.Obj.type # "*v1.Pod"
    /\ last.calls = <<>>
    /\ last.errors = <<[msg |-> "unable to convert object %T to *v1.Pod",
                        type |-> "cache.DeletedFinalStateUnknown"]>>
    /\ podBindingCache # {}

\* the scheduling cycles when every pod that has bindings is in the end bound
\* (PostBind), rejected (Unreserve) or deleted (DeleteFunc), and every
\* BindPodVolumes returns, by completion or at the bind timeout
LiveSpec ==
    /\ Spec
    /\ \A pod \in CyclePods : WF_vars(CleanupOf(pod))
    /\ \A pod \in CyclePods : WF_vars(ReturnPreBind(pod))

C14_NoPlanningAfterReserve ==
    /\ [](last.op \in {"PreBind", "Unreserve", "PostBind"}
          => \A i \in DOMAIN last.calls :
               last.calls[i].fn \notin {"FindPodVolumes", "AssumePodVolumes"})
    /\ [][\A pod \in CyclePods :
            /\ CallPreBind(pod)
               => /\ pod \in inBind' <=> HoldsFlag(cycleState[pod.name], FALSE)
                  /\ HoldsFlag(cycleState[pod.name], TRUE)
                     => last'.status = [code |-> "Success", reasons |-> <<>>]
            /\ (assumed[pod.name] \in {"allBound", "notAllBound"} /\ RunUnreserve(pod))
               => last'.calls = <<[fn |-> "DeletePodBindings", pod |-> pod.name,
                                   node |-> NoNode]>>]_vars

\* C14 happens: Unreserve has made its one call after a Reserve that succeeded
\* in the cycle and was told that not all volumes are bound
C14_Witness ==
    /\ last.op = "Unreserve"
    /\ assumed[last.pod.name] = "notAllBound"
    /\ last.calls = <<[fn |-> "DeletePodBindings", pod |-> last.pod.name,
                       node |-> NoNode]>>
    /\ last.pod.name \notin podBindingCache

\* C15: no cleanup for a pod (Unreserve, PostBind, or the DeleteFunc on the
\* pod) runs while the PreBind of the pod waits in BindPodVolumes, so that the
\* bindings Reserve has assumed are in the cache until BindPodVolumes returns.
C15_CleanupNeverOverlapsBind ==
    [][\A pod \in CyclePods : CleanupOf(pod) => pod \notin inBind]_vars

\* a step is an operation of the pod's cycle, or a cleanup for the pod
StepOf(pod) ==
    \/ NewCycle(pod.name)
    \/ \E node \in NodeNames \cup {NilNode} : RunFilter(pod, node, CycleFindReturns)
    \/ \E nodeName \in NodeNames : RunReserve(pod, nodeName)
    \/ CallPreBind(pod)
    \/ ReturnPreBind(pod)
    \/ CleanupOf(pod)

\* C16: an operation for one pod leaves the CycleState of every other pod, the
\* bindings of every other pod in the cache, and the other pods' waiting in
\* BindPodVolumes as they are.  Whatever has run for the other pods since, the
\* flag that PreBind reads for a pod is the one that the pod's own Reserve has
\* stored: PreBind waits in BindPodVolumes exactly when that Reserve was told
\* that not all volumes are bound.
C16_CyclesAreIsolated ==
    [][\A pod \in CyclePods :
         /\ StepOf(pod)
            => \A q \in PodNames \ {pod.name} :
                 /\ cycleState'[q] = cycleState[q]
                 /\ q \in podBindingCache' <=> q \in podBindingCache
                 /\ assumed'[q] = assumed[q]
                 /\ q \in Blocked' <=> q \in Blocked
         /\ (assumed[pod.name] \in {"allBound", "notAllBound"} /\ CallPreBind(pod))
            => /\ HoldsFlag(cycleState[pod.name], assumed[pod.name] = "allBound")
               /\ pod \in inBind' <=> assumed[pod.name] = "notAllBound"]_vars

\* C16 happens: PreBind has bound the volumes of one pod, as its Reserve had
\* stored, while the cycle of the other pod holds the opposite flag and its
\* bindings are in the cache
C16_Witness ==
    /\ last.op = "PreBind"
    /\ last.pod.name = "pod-b"
    /\ last.calls = <<BindCall(last.pod)>>
    /\ assumed["pod-b"] = "notAllBound"
    /\ assumed["pod-a"] = "allBound"
    /\ HoldsFlag(cycleState["pod-a"], TRUE)
    /\ "pod-a" \in podBindingCache

\* the duration is exactly this many seconds: the product of the seconds and
\* time.Second, which is not the int64 product when that one wraps
IsSeconds(duration, seconds) ==
    /\ ~IsNegative(duration)
    /\ duration \o [i \in 1..Int64Bytes |-> 0]
       = MulBytes(seconds, Second, 1, 0, 2 * Int64Bytes)

\* C17: New fails, and returns no plugin, when BindTimeoutSeconds is given and
\* is zero or negative; when it is left out New succeeds and the bind timeout
\* of the plugin's binder is 600 seconds; when it is given and positive New
\* succeeds and the bind timeout is that many seconds.
C17_BindTimeoutValidated ==
    (last.op = "New" /\ last.plArgs.err = NoError)
    => LET field == last.plArgs.args.BindTimeoutSeconds IN
       /\ (~field.nil /\ (IsNegative(field.value) \/ IsZero(field.value)))
          => (last.err # NoError /\ last.plugin = NoPlugin)
       /\ field.nil
          => /\ last.err = NoError
             /\ last.plugin # NoPlugin
             /\ IsSeconds(last.plugin.bindTimeout, Int64(600))
       /\ (~field.nil /\ ~IsNegative(field.value) /\ ~IsZero(field.value))
          => /\ last.err = NoError
             /\ last.plugin # NoPlugin
             /\ IsSeconds(last.plugin.bindTimeout, field.value)

\* C18: when every BindPodVolumes returns (it completes, or the bind timeout
\* ends it), a PreBind that waits in BindPodVolumes returns later, with success
\* or an Error status.  No other handler waits: a call of Filter, Reserve,
\* Unreserve or PostBind, and a DeleteFunc, is one step that leaves the waiting
\* PreBinds as they are; while the PreBind of a pod waits, the handlers can run
\* for every pod that is not in PreBind, and the DeleteFunc for every object.
C18_OnlyBindBlocks ==
    /\ \A pod \in CyclePods :
         (pod \in inBind)
         ~> (/\ pod \notin inBind
             /\ last.op = "PreBind"
             /\ last.pod = pod
             /\ last.status.code \in {"Success", "Error"})
    /\ [][(\/ FilterStep
           \/ ReserveStep
           \/ \E pod \in CyclePods : RunUnreserve(pod) \/ RunPostBind(pod)
           \/ \E obj \in Objects : RunDeleteFunc(obj))
          => /\ inBind' = inBind
             /\ last'.op \in {"Filter", "Reserve", "Unreserve", "PostBind", "DeleteFunc"}]_vars
    /\ [](/\ \A obj \in Objects : ENABLED RunDeleteFunc(obj)
          /\ \A pod \in CyclePods :
               pod \notin inBind
               => /\ ENABLED RunFilter(pod, "node-1", CycleFindReturns)
                  /\ ENABLED RunReserve(pod, "node-1")
                  /\ ENABLED RunUnreserve(pod)
                  /\ ENABLED RunPostBind(pod))

\* C18 happens: Reserve has returned for one pod while the PreBind of the
\* other waits in BindPodVolumes
C18_Witness ==
    /\ inBind # {}
    /\ last.op = "Reserve"
    /\ last.pod \notin inBind
    /\ last.status.code = "Success"

\* what is in the filesystem at a clean path from its root
InFilesystem(fs, path) ==
    IF path = <<"/">> THEN Directory
    ELSE IF path \in DOMAIN fs THEN fs[path]
    ELSE NoEntry

RECURSIVE Resolution(_, _, _, _, _)
\* what a path means in the filesystem itself, every link followed, an
\* absolute target being a path from the old root: the file it leads to
\* ("file"), the path that is not there ("missing"), the target that lies
\* outside the old root ("outside"), a file on its way that is no directory
\* ("notdir"), or too many links ("loop")
Resolution(fs, oldroot, cur, rest, fuel) ==
    IF rest = <<>>
    THEN [is |-> "file", path |-> cur]
    ELSE LET e == Head(rest)
             next == Clean(cur \o <<"/">> \o e)
             entry == InFilesystem(fs, next)
         IN  IF e = <<".">> \/ e = DotDot \/ entry.kind = "dir"
             THEN Resolution(fs, oldroot, next, Tail(rest), fuel)
             ELSE IF entry.kind = "none"
             THEN [is |-> "missing", path |-> next]
             ELSE IF entry.kind = "file"
             THEN IF Tail(rest) = <<>>
                  THEN [is |-> "file", path |-> next]
                  ELSE [is |-> "notdir", path |-> next]
             ELSE IF fuel = 0
             THEN [is |-> "loop", path |-> next]
             ELSE IF ~IsAbs(entry.target)
             THEN Resolution(fs, oldroot, cur,
                             Elements(entry.target, 1, <<>>) \o Tail(rest), fuel - 1)
             ELSE IF Under(entry.target, oldroot)
             THEN Resolution(fs, oldroot, <<"/">>,
                             Elements(TrimPrefix(entry.target, oldroot), 1, <<>>)
                             \o Tail(rest), fuel - 1)
             ELSE [is |-> "outside", path |-> entry.target]

\* what the path given to the call that has returned means in its filesystem
Meaning ==
    Resolution(last.fs, last.oldroot, <<"/">>, Elements(last.input, 1, <<>>), MaxSymlinks)

\* a call of EvalSymlinksAtNewRoot on an absolute path has returned
Evaluated ==
    /\ last.op = "EvalSymlinksAtNewRoot"
    /\ last.returned
    /\ IsAbs(last.input)

\* C19: when the links of an absolute path, absolute ones into the old root
\* and relative ones, in its last element or in its directories, lead to a file
\* of the filesystem, EvalSymlinksAtNewRoot returns the clean path of that file
\* from the root of the filesystem, and no error; when they lead to a path that
\* is not in the filesystem, it returns the empty path and the error of lstat,
\* ENOENT, for a path under newroot (the path that is not there joined to
\* newroot, when it is the end of the path that the last pass walks).
C19_ResolvesInFilesystem ==
    Evaluated
    => /\ Meaning.is = "file"
          => (last.path = Meaning.path /\ last.err = NilError)
       /\ Meaning.is = "missing"
          => /\ last.path = <<>>
             /\ ~last.err.nil
             /\ last.err = PathError("lstat", last.err.Path, "ENOENT")
             /\ Under(last.err.Path, last.newroot)

\* C20: when the links of the path lead to a link whose absolute target lies
\* outside the old root, being neither the old root nor under it (as the
\* directory beside it whose name begins with the old root's), the call returns
\* the empty path and the path error of readlink, not exist, for that target,
\* whether the caller has a file at the target or not.
C20_LinkOutsideOldRoot ==
    (Evaluated /\ Meaning.is = "outside")
    => /\ last.path = <<>>
       /\ last.err = PathError("readlink", Meaning.path, "ErrNotExist")

\* EvalSymlinksAtNewRoot has been called
Called == last.op = "EvalSymlinksAtNewRoot"

\* the call is in the loop of walkSymlinks: it is then, and only then, that
\* WalkPass can be taken, and a pass always changes what the call holds
InLoop == Called /\ ~last.returned

\* what the next pass of the loop gives
NextPass ==
    walkSymlinksPass(CallerNamespace(last.fs, last.oldroot, last.newroot, last.atOldRoot),
                     last.path, last.oldroot, last.newroot, last.linksWalked)

\* the calls of EvalSymlinksAtNewRoot, the loop of walkSymlinks running on its
\* own: the weak fairness of WalkPass, WF_vars(WalkPass), written with InLoop
\* for ENABLED <<WalkPass>>_vars
EvalLiveSpec == EvalSpec /\ ([]<>~InLoop \/ []<><<WalkPass>>_vars)

\* C21, as it is stated: a call that has returned after more than 255 links
\* were followed has returned the error "EvalSymlinks: too many links".
C21_TooManyLinksAfter255 ==
    (Called /\ last.returned /\ last.linksWalked > MaxLinksWalked)
    => last.err = TooManyLinks

\* C21: every call of EvalSymlinksAtNewRoot returns, on the filesystems whose
\* links make a cycle too.  The count of the links followed never decreases and
\* never exceeds 256.  The error "EvalSymlinks: too many links" is returned
\* only after more than 255 links were followed, and is what a pass returns
\* that begins after more than 255 links on a path other than the root: the
\* 256th link is still followed, and the call that ends with it returns what
\* it leads to (the root, or the error of a target outside the old root).  A
\* pass returns when it has an error or has followed no link, and goes on to
\* the next pass when it has followed a link without error, so that each pass
\* that does not return has raised the count, and a call in the loop always
\* has a next pass that changes what it holds.
C21_ResolverTerminates ==
    /\ Called ~> (Called /\ last.returned)
    /\ [](InLoop => NextPass.returned \/ NextPass.linksWalked # last.linksWalked)
    /\ [][(WalkPass /\ ~last'.returned) => last'.linksWalked > last.linksWalked]_vars
    /\ [][Called => last'.linksWalked >= last.linksWalked]_vars
    /\ [](Called => last.linksWalked <= MaxLinksWalked + 1)
    /\ []((Called /\ last.err = TooManyLinks)
           => (last.returned /\ last.linksWalked > MaxLinksWalked))
    /\ [][(WalkPass /\ last.linksWalked > MaxLinksWalked /\ ~isRoot(last.path))
           => (last'.returned /\ last'.err = TooManyLinks)]_vars
    /\ [][WalkPass
           => (last'.returned
               <=> (~last'.err.nil \/ last'.linksWalked = last.linksWalked))]_vars

\* a call on a filesystem whose links make a cycle has returned, with the
\* error of too many links, after 256 links
C21_Witness ==
    /\ Called
    /\ last.fs \in CyclicFilesystems
    /\ last.returned
    /\ last.err = TooManyLinks
    /\ last.linksWalked = MaxLinksWalked + 1

==========================================================================
